---- MODULE Spec2Model ----
(***************************************************************************)
(* A model of the badmeet_bot pipeline: the Telegram notifier, the BWF     *)
(* calendar extractors, the poster composers and the generate-and-send     *)
(* driver of src/main.py and src/bwf_scraper.py.                           *)
(*                                                                         *)
(* Text is modelled as a sequence of one-character strings so that the     *)
(* substring tests, the upper-casing, the replace and the strip of the     *)
(* code are computed rather than assumed.  A sequence built pointwise is    *)
(* concatenated with <<>> where it is read many times, which makes TLC     *)
(* compute it once.                                                        *)
(***************************************************************************)
EXTENDS Integers, Sequences, FiniteSets, TLC

VARIABLES
    BOT_TOKEN,   \* main.py:15, read once from the environment
    CHAT_ID,     \* main.py:16
    op,          \* the call that has just completed, "idle" between calls
    args,        \* the inputs of that call, the environment's answers included
    ret,         \* the value returned, [kind |-> "none"] when it raised
    raised,      \* the exception that escaped the call, "none" otherwise
    http,        \* the HTTP requests the call performed, in order
    errors,      \* the diagnostics the call recorded, in order
    drawn        \* the drawing primitives the call issued, in order

vars == <<BOT_TOKEN, CHAT_ID, op, args, ret, raised, http, errors, drawn>>

-----------------------------------------------------------------------------
(* Text helpers: Python's str operations on character sequences.           *)

Lowers == <<"a","b","c","d","e","f","g","h","i","j","k","l","m",
            "n","o","p","q","r","s","t","u","v","w","x","y","z">>
Uppers == <<"A","B","C","D","E","F","G","H","I","J","K","L","M",
            "N","O","P","Q","R","S","T","U","V","W","X","Y","Z">>

UpperCh(c) ==
    IF \E i \in DOMAIN Lowers : Lowers[i] = c
    THEN Uppers[CHOOSE i \in DOMAIN Lowers : Lowers[i] = c]
    ELSE c

LowerCh(c) ==
    IF \E i \in DOMAIN Uppers : Uppers[i] = c
    THEN Lowers[CHOOSE i \in DOMAIN Uppers : Uppers[i] = c]
    ELSE c

\* str.upper()
Upper(s) == [i \in DOMAIN s |-> UpperCh(s[i])] \o <<>>

\* str.lower()
Lower(s) == [i \in DOMAIN s |-> LowerCh(s[i])] \o <<>>

\* s[i:] starts with sub
StartsAt(s, sub, i) ==
    /\ i + Len(sub) - 1 <= Len(s)
    /\ \A k \in 1..Len(sub) : s[i + k - 1] = sub[k]

\* sub in s
Contains(s, sub) == \E i \in 1..(Len(s) + 1) : StartsAt(s, sub, i)

\* s.replace(old, new), old non-empty: left to right, non-overlapping
RECURSIVE ReplaceFrom(_, _, _, _)
ReplaceFrom(s, old, new, i) ==
    IF i > Len(s) THEN <<>>
    ELSE IF StartsAt(s, old, i)
         THEN new \o ReplaceFrom(s, old, new, i + Len(old))
         ELSE <<s[i]>> \o ReplaceFrom(s, old, new, i + 1)

Replace(s, old, new) == ReplaceFrom(s, old, new, 1)

\* s.strip(): leading and trailing blanks removed
RECURSIVE LStrip(_)
LStrip(s) == IF s # <<>> /\ Head(s) = " " THEN LStrip(Tail(s)) ELSE s

RECURSIVE RStrip(_)
RStrip(s) ==
    IF s # <<>> /\ s[Len(s)] = " " THEN RStrip(SubSeq(s, 1, Len(s) - 1)) ELSE s

Strip(s) == RStrip(LStrip(s))

\* sep.join(parts)
RECURSIVE Join(_, _)
Join(sep, parts) ==
    IF parts = <<>> THEN <<>>
    ELSE IF Len(parts) = 1 THEN parts[1]
    ELSE parts[1] \o sep \o Join(sep, Tail(parts))

\* seq[:n]
Take(seq, n) == SubSeq(seq, 1, IF n < Len(seq) THEN (IF n < 0 THEN 0 ELSE n) ELSE Len(seq))

Max(a, b) == IF a >= b THEN a ELSE b

\* The decimal digits of a natural number, as text
RECURSIVE Digits(_)
Digits(n) ==
    LET d == <<"0","1","2","3","4","5","6","7","8","9">>
    IN  IF n < 10 THEN <<d[n + 1]>> ELSE Digits(n \div 10) \o <<d[(n % 10) + 1]>>

-----------------------------------------------------------------------------
(* Program literals.                                                       *)


\* bwf_scraper.py:50, in the order the loop tries them
LevelTokens ==
    << <<"S","U","P","E","R"," ","1","0","0","0">>,
       <<"S","U","P","E","R"," ","7","5","0">>,
       <<"S","U","P","E","R"," ","5","0","0">>,
       <<"S","U","P","E","R","1","0","0","0">>,
       <<"S","U","P","E","R","7","5","0">>,
       <<"S","U","P","E","R","5","0","0">> >>

\* bwf_scraper.py:52, the arguments of level = lv.replace(...)
s_SUPER  == <<"S","U","P","E","R">>
s_Super_ == <<"S","u","p","e","r"," ">>

\* bwf_scraper.py:79
TierNumbers ==
    << <<"1","0","0","0">>,
       <<"7","5","0">>,
       <<"5","0","0">> >>

\* bwf_scraper.py:59-60
DateTokens ==
    << <<"2","0","2","5">>,
       <<"J","a","n">>,
       <<"F","e","b">>,
       <<"M","a","r">>,
       <<"A","p","r">>,
       <<"M","a","y">>,
       <<"J","u","n">>,
       <<"J","u","l">>,
       <<"A","u","g">>,
       <<"S","e","p">>,
       <<"O","c","t">>,
       <<"N","o","v">>,
       <<"D","e","c">> >>

\* bwf_scraper.py:69
LocationKeywords ==
    << <<"c","i","t","y">>,
       <<"c","o","u","n","t","r","y">> >>
s_comma == <<",">>

\* bwf_scraper.py:39
CardClassWords ==
    << <<"e","v","e","n","t">>,
       <<"c","a","r","d">> >>
-----------------------------------------------------------------------------
(* Class tokens and selector literals of main.py:92-93, 103-155, 365-370.  *)

Cls ==
    [ event_card         |-> <<"e","v","e","n","t","-","c","a","r","d">>,
      c_card_event       |-> <<"c","-","c","a","r","d","-","-","e","v","e","n","t">>,
      event              |-> <<"e","v","e","n","t">>,
      card               |-> <<"c","a","r","d">>,
      news               |-> <<"n","e","w","s">>,
      event_card_name    |-> <<"e","v","e","n","t","-","c","a","r","d","_","_","n","a","m","e">>,
      event_card_title   |-> <<"e","v","e","n","t","-","c","a","r","d","_","_","t","i","t","l","e">>,
      c_card_title       |-> <<"c","-","c","a","r","d","_","_","t","i","t","l","e">>,
      event_title        |-> <<"e","v","e","n","t","_","_","t","i","t","l","e">>,
      event_card_date    |-> <<"e","v","e","n","t","-","c","a","r","d","_","_","d","a","t","e">>,
      event_date         |-> <<"e","v","e","n","t","_","_","d","a","t","e">>,
      c_card_date        |-> <<"c","-","c","a","r","d","_","_","d","a","t","e">>,
      date               |-> <<"d","a","t","e">>,
      dates              |-> <<"d","a","t","e","s">>,
      event_card_level   |-> <<"e","v","e","n","t","-","c","a","r","d","_","_","l","e","v","e","l">>,
      event_level        |-> <<"e","v","e","n","t","_","_","l","e","v","e","l">>,
      c_card_tag         |-> <<"c","-","c","a","r","d","_","_","t","a","g">>,
      level              |-> <<"l","e","v","e","l">>,
      tag                |-> <<"t","a","g">>,
      event_card_city    |-> <<"e","v","e","n","t","-","c","a","r","d","_","_","c","i","t","y">>,
      event_city         |-> <<"e","v","e","n","t","_","_","c","i","t","y">>,
      c_card_meta        |-> <<"c","-","c","a","r","d","_","_","m","e","t","a">>,
      location           |-> <<"l","o","c","a","t","i","o","n">>,
      venue              |-> <<"v","e","n","u","e">>,
      city               |-> <<"c","i","t","y">>,
      tournament_name    |-> <<"t","o","u","r","n","a","m","e","n","t","_","_","n","a","m","e">>,
      event_name         |-> <<"e","v","e","n","t","_","_","n","a","m","e">>,
      tournament_title   |-> <<"t","o","u","r","n","a","m","e","n","t","-","t","i","t","l","e">> ]
s_tournament         == <<"t","o","u","r","n","a","m","e","n","t">>

-----------------------------------------------------------------------------
(* Sample texts the documents below are built from.                        *)

Txt ==
    [ Malaysia_Open      |-> <<"M","a","l","a","y","s","i","a"," ","O","p","e","n">>,
      India_Open         |-> <<"I","n","d","i","a"," ","O","p","e","n">>,
      Korea_Open         |-> <<"K","o","r","e","a"," ","O","p","e","n">>,
      Local_Cup          |-> <<"L","o","c","a","l"," ","C","u","p">>,
      SUPER_1000         |-> <<"S","U","P","E","R"," ","1","0","0","0">>,
      Super750           |-> <<"S","u","p","e","r","7","5","0">>,
      Super_500          |-> <<"S","u","p","e","r"," ","5","0","0">>,
      Grade_3            |-> <<"G","r","a","d","e"," ","3">>,
      d12_Jan_2025       |-> <<"1","2"," ","J","a","n"," ","2","0","2","5">>,
      d14_Jan            |-> <<"1","4"," ","J","a","n">>,
      Kuala_Lumpur       |-> <<"K","u","a","l","a"," ","L","u","m","p","u","r",","," ","M","a","l","a","y","s","i","a">>,
      New_Delhi          |-> <<"N","e","w"," ","D","e","l","h","i",","," ","I","n","d","i","a">>,
      href_ind           |-> <<"/","t","o","u","r","n","a","m","e","n","t","/","i","n","d","i","a","-","o","p","e","n">>,
      href_about         |-> <<"/","a","b","o","u","t">>,
      Calendar           |-> <<"C","a","l","e","n","d","a","r">>,
      padded             |-> <<" ","T","h","a","i","l","a","n","d"," ","O","p","e","n"," ">> ]

-----------------------------------------------------------------------------
(* Documents: what BeautifulSoup gives the extractors.  An element has a   *)
(* tag, its class tokens (none: no class attribute), its own text, an href *)
(* (empty: no href attribute) and its child elements, which are leaves.    *)

Leaf(tag, cls, text, href) ==
    [tag |-> tag, cls |-> cls, text |-> text, href |-> href, kids |-> <<>>]

Node(tag, cls, kids) ==
    [tag |-> tag, cls |-> cls, text |-> <<>>, href |-> <<>>, kids |-> kids]

\* Every element of the document in document order: each element, then its
\* children (find_all and select search the whole tree).
RECURSIVE AllElements(_)
AllElements(doc) ==
    IF doc = <<>> THEN <<>>
    ELSE <<Head(doc)>> \o Head(doc).kids \o AllElements(Tail(doc))

\* The stripped, non-empty text pieces of an element, in document order
Pieces(e) ==
    LET own  == <<Strip(e.text)>> \o [i \in DOMAIN e.kids |-> Strip(e.kids[i].text)]
    IN  SelectSeq(own, LAMBDA p : p # <<>>)

\* tag.get_text(sep, strip=True)
GetText(e, sep) == Join(sep, Pieces(e))

\* The first of the elements found, as a sequence of length 0 or 1 (find /
\* select_one returning None or a node)
First(hits) == Take(hits, 1)

HasClass(e, token) == \E i \in DOMAIN e.cls : e.cls[i] = token

-----------------------------------------------------------------------------
(* fetch_calendar, bwf_scraper.py:23-97                                    *)

\* bwf_scraper.py:37-40: article/div/li elements that carry a class attribute
\* whose joined text contains "event" or "card"
IsCard(e) ==
    /\ e.tag \in {"article", "div", "li"}
    /\ e.cls # <<>>
    /\ LET joined == Lower(Join(<<" ">>, e.cls))
       IN  \E i \in DOMAIN CardClassWords : Contains(joined, CardClassWords[i])

Cards(doc) == SelectSeq(AllElements(doc), IsCard)

\* bwf_scraper.py:45
CardName(c) ==
    LET heading == First(SelectSeq(c.kids, LAMBDA k : k.tag \in {"h3", "h2"}))
        anchor  == First(SelectSeq(c.kids, LAMBDA k : k.tag = "a"))
        node    == IF heading # <<>> THEN heading[1]
                   ELSE IF anchor # <<>> THEN anchor[1] ELSE c
    IN  GetText(node, <<>>)

\* bwf_scraper.py:48-53: the first level token found in the upper-cased text,
\* rewritten by lv.replace("SUPER", "Super ")
CardLevel(c) ==
    LET text_all == Upper(GetText(c, <<" ">>))
        found    == SelectSeq(LevelTokens, LAMBDA lv : Contains(text_all, lv))
    IN  IF found = <<>> THEN <<>> ELSE Replace(found[1], s_SUPER, s_Super_)

\* bwf_scraper.py:56-63
CardDates(c) ==
    LET texts == [i \in DOMAIN c.kids |-> GetText(c.kids[i], <<" ">>)]
        tagged == SelectSeq([i \in DOMAIN c.kids |->
                               [tag |-> c.kids[i].tag, s |-> texts[i]]],
                            LAMBDA t : /\ t.tag \in {"time", "span", "div"}
                                       /\ \E j \in DOMAIN DateTokens :
                                              Contains(t.s, DateTokens[j])
                                       /\ 6 <= Len(t.s) /\ Len(t.s) <= 40)
    IN  IF tagged = <<>> THEN <<>> ELSE tagged[1].s

\* bwf_scraper.py:66-72
CardLocation(c) ==
    LET texts == [i \in DOMAIN c.kids |-> GetText(c.kids[i], <<" ">>)]
        tagged == SelectSeq([i \in DOMAIN c.kids |->
                               [tag |-> c.kids[i].tag, s |-> texts[i]]],
                            LAMBDA t : /\ t.tag \in {"span", "div", "p"}
                                       /\ \/ \E j \in DOMAIN LocationKeywords :
                                                Contains(Lower(t.s), LocationKeywords[j])
                                          \/ Contains(t.s, s_comma)
                                       /\ 4 <= Len(t.s) /\ Len(t.s) <= 60)
    IN  IF tagged = <<>> THEN <<>> ELSE tagged[1].s

\* bwf_scraper.py:75-76
CardLink(c) ==
    LET a == First(SelectSeq(c.kids, LAMBDA k : k.tag = "a" /\ k.href # <<>>))
    IN  IF a = <<>> THEN <<>> ELSE a[1].href

\* The record lines 80-86 build for one card
CardRecord(c) ==
    [name |-> CardName(c), level |-> CardLevel(c), dates |-> CardDates(c),
     location |-> CardLocation(c), link |-> CardLink(c)]

\* bwf_scraper.py:79: the tier filter
TierKept(e) ==
    /\ e.level # <<>>
    /\ \E i \in DOMAIN TierNumbers : Contains(e.level, TierNumbers[i])

\* A tier filter that hands on the records it keeps newest first, the last
\* card of the document in front
CalendarEventsNewestFirst(doc) ==
    LET cards == Cards(doc)
        kept  == SelectSeq([i \in DOMAIN cards |-> CardRecord(cards[i])], TierKept)
    IN  [i \in DOMAIN kept |-> kept[Len(kept) + 1 - i]]

\* bwf_scraper.py:42-86: the records of the cards that pass the filter
CalendarEvents(doc) ==
    LET cards == Cards(doc)
    IN  SelectSeq([i \in DOMAIN cards |-> CardRecord(cards[i])], TierKept)

\* bwf_scraper.py:92
CalendarKey(e) == <<e.name, e.dates, e.level>>

\* A de-duplication that puts each first occurrence before the ones already
\* kept rather than after them: its output is in reverse order of first
\* occurrence, so that a second run turns it round again
RECURSIVE DedupEventsPrepending(_, _)
DedupEventsPrepending(events, seen) ==
    IF events = <<>> THEN <<>>
    ELSE LET e == Head(events)
             key == CalendarKey(e)
         IN  IF key \notin seen
             THEN DedupEventsPrepending(Tail(events), seen \cup {key}) \o <<e>>
             ELSE DedupEventsPrepending(Tail(events), seen)

\* bwf_scraper.py:89-95: first occurrence of each key, in order
RECURSIVE DedupEvents(_, _)
DedupEvents(events, seen) ==
    IF events = <<>> THEN <<>>
    ELSE LET e == Head(events)
             key == CalendarKey(e)
         IN  IF key \notin seen
             THEN <<e>> \o DedupEvents(Tail(events), seen \cup {key})
             ELSE DedupEvents(Tail(events), seen)

\* bwf_scraper.py:97: uniq[:8] or events[:8]
CalendarResult(doc) ==
    LET events == CalendarEvents(doc)
        uniq   == DedupEvents(events, {})
    IN  IF Take(uniq, 8) # <<>> THEN Take(uniq, 8) ELSE Take(events, 8)

-----------------------------------------------------------------------------
(* Input documents.                                                        *)

MaxCards == 2      \* sample elements per mixed document
MaxLong  == 10     \* elements of the longest uniform document

NoCls == <<>>
NoRef == <<>>

\* One .event-card holding "SUPER 1000", a date and a city
CardA ==
    Node("div", <<Cls.event_card>>,
         << Leaf("h3", NoCls, Txt.Malaysia_Open, NoRef),
            Leaf("span", NoCls, Txt.SUPER_1000, NoRef),
            Leaf("span", NoCls, Txt.d12_Jan_2025, NoRef),
            Leaf("span", NoCls, Txt.Kuala_Lumpur, NoRef) >>)

\* A block carrying both the new and the old class, with component classes
CardB ==
    Node("div", <<Cls.event_card, Cls.event>>,
         << Leaf("a", <<Cls.event_card_name>>, Txt.India_Open, Txt.href_ind),
            Leaf("span", <<Cls.event_card_level>>, Txt.Super750, NoRef),
            Leaf("time", <<Cls.event_card_date>>, Txt.d14_Jan, NoRef),
            Leaf("p", <<Cls.event_card_city>>, Txt.New_Delhi, NoRef) >>)

\* A card without any tier
CardC ==
    Node("li", <<Cls.card>>,
         << Leaf("h2", NoCls, Txt.Local_Cup, NoRef),
            Leaf("small", NoCls, Txt.Grade_3, NoRef) >>)

\* An old-style .event block
CardD ==
    Node("div", <<Cls.event>>,
         << Leaf("h3", <<Cls.event_title>>, Txt.Korea_Open, NoRef),
            Leaf("span", <<Cls.tag>>, Txt.Super_500, NoRef),
            Leaf("p", <<Cls.date>>, Txt.d14_Jan, NoRef) >>)

\* Not a card: no class names it
CardE ==
    Node("div", <<Cls.news>>,
         << Leaf("h3", NoCls, Txt.Local_Cup, NoRef),
            Leaf("span", NoCls, Txt.SUPER_1000, NoRef) >>)

\* A card whose child is itself a div with a card class, and padded text
CardF ==
    Node("article", <<Cls.event_card>>,
         << Leaf("div", <<Cls.event_card_name>>, Txt.padded, NoRef),
            Leaf("span", <<Cls.level>>, Txt.Super_500, NoRef) >>)

\* A block that holds a date and nothing to name it by
CardG ==
    Node("div", <<Cls.event_card>>, << Leaf("p", NoCls, Txt.d12_Jan_2025, NoRef) >>)

SampleCards == {CardA, CardB, CardC, CardD, CardE, CardF, CardG}

\* The i-th block of a uniform document: distinct names, one tier
NumCard(i) ==
    Node("div", <<Cls.event_card>>,
         << Leaf("h3", NoCls, <<"E">> \o Digits(i), NoRef),
            Leaf("span", NoCls, Txt.Super750, NoRef) >>)

RECURSIVE SeqsUpTo(_, _)
SeqsUpTo(S, n) ==
    IF n = 0 THEN {<<>>}
    ELSE LET shorter == SeqsUpTo(S, n - 1)
         IN  shorter \cup {Append(s, x) : s \in shorter, x \in S}

\* Longer documents in which blocks recur between other blocks
RecurringDocs ==
    {<<CardA, CardB, CardA>>, <<CardB, CardD, CardB, CardD>>, <<CardF, CardA, CardF>>}

Docs ==
    SeqsUpTo(SampleCards, MaxCards)
        \cup {[i \in 1..n |-> NumCard(i)] : n \in 0..MaxLong}
        \cup RecurringDocs

-----------------------------------------------------------------------------
(* The state machine: one action per call, and the return to idle.         *)

NoneVal == "<None>"       \* os.getenv of an unset variable
Falsy(x) == x = NoneVal \/ x = ""

NoRet == [kind |-> "none"]
ListRet(items) == [kind |-> "list", items |-> items]

Init ==
    /\ BOT_TOKEN \in {NoneVal, "", "123:abc"}
    /\ CHAT_ID \in {NoneVal, "", "@badmeet"}
    /\ op = "idle"
    /\ args = [none |-> TRUE]
    /\ ret = NoRet
    /\ raised = "none"
    /\ http = <<>>
    /\ errors = <<>>
    /\ drawn = <<>>

\* The caller takes the result; the next call starts from a clean slate
Return ==
    /\ op # "idle"
    /\ op' = "idle"
    /\ args' = [none |-> TRUE]
    /\ ret' = NoRet
    /\ raised' = "none"
    /\ http' = <<>>
    /\ errors' = <<>>
    /\ drawn' = <<>>
    /\ UNCHANGED <<BOT_TOKEN, CHAT_ID>>

-----------------------------------------------------------------------------
(* The notifier: main.py:39-66 and bwf_scraper.py:188-195                  *)

\* What a POST to the chat API can come to
PostOutcomes == {"exception", "4xx", "200"}

\* The chat API answers a request that names no bot or no chat with an error
PostOutcomesFor(token, chat) ==
    IF Falsy(token) \/ Falsy(chat) THEN PostOutcomes \ {"200"} ELSE PostOutcomes

Post(url, outcome) == [method |-> "POST", via |-> "requests", url |-> url, outcome |-> outcome]

PairRet(ok, text) == [kind |-> "pair", ok |-> ok, text |-> text]

\* main.py:41 and main.py:57
ConfigFailure == PairRet(FALSE, "Missing BOT_TOKEN or CHAT_ID")

\* main.py:40 and main.py:56
ConfigMissing == Falsy(BOT_TOKEN) \/ Falsy(CHAT_ID)

\* main.py:45-49 and main.py:62-66: (r.ok, r.text), or (False, str(e))
PostResult(outcome) ==
    IF outcome = "exception" THEN PairRet(FALSE, "exception text")
    ELSE PairRet(outcome = "200", "response body")

Payloads == {"", "payload"}

\* main.py:39-49
SendTelegramText ==
    /\ op = "idle"
    /\ \E text \in Payloads :
       \E outcome \in (IF ConfigMissing THEN {"unused"}
                       ELSE PostOutcomesFor(BOT_TOKEN, CHAT_ID)) :
          /\ op' = "send_telegram_text"
          /\ args' = [payload |-> text, post |-> outcome]
          /\ IF ConfigMissing
             THEN /\ ret' = ConfigFailure
                  /\ http' = <<>>
             ELSE /\ ret' = PostResult(outcome)
                  /\ http' = <<Post("sendMessage", outcome)>>
          /\ raised' = "none"
          /\ UNCHANGED <<BOT_TOKEN, CHAT_ID, errors, drawn>>

\* main.py:55-66
SendTelegramPhoto ==
    /\ op = "idle"
    /\ \E img \in Payloads :
       \E outcome \in (IF ConfigMissing THEN {"unused"}
                       ELSE PostOutcomesFor(BOT_TOKEN, CHAT_ID)) :
          /\ op' = "send_telegram_photo"
          /\ args' = [payload |-> img, post |-> outcome]
          /\ IF ConfigMissing
             THEN /\ ret' = ConfigFailure
                  /\ http' = <<>>
             ELSE /\ ret' = PostResult(outcome)
                  /\ http' = <<Post("sendPhoto", outcome)>>
          /\ raised' = "none"
          /\ UNCHANGED <<BOT_TOKEN, CHAT_ID, errors, drawn>>

\* bwf_scraper.py:188-195 for a given answer of the file system and of the
\* chat API: open() may raise; the POST is made whatever token and chat_id
\* are; raise_for_status raises on an error status
TgSendPhotoHttp(fileOK, outcome) ==
    IF fileOK THEN <<Post("sendPhoto", outcome)>> ELSE <<>>

TgSendPhotoRaised(fileOK, outcome) ==
    IF ~fileOK THEN "FileNotFoundError"
    ELSE IF outcome = "exception" THEN "RequestException"
    ELSE IF outcome # "200" THEN "HTTPError"
    ELSE "none"

TgSendPhoto ==
    /\ op = "idle"
    /\ \E token \in {"", "123:abc"}, chat \in {"", "@badmeet"}, fileOK \in BOOLEAN :
       \E outcome \in PostOutcomesFor(token, chat) :
          /\ op' = "tg_send_photo"
          /\ args' = [token |-> token, chat_id |-> chat, fileOK |-> fileOK, post |-> outcome]
          /\ http' = TgSendPhotoHttp(fileOK, outcome)
          /\ raised' = TgSendPhotoRaised(fileOK, outcome)
          /\ ret' = IF TgSendPhotoRaised(fileOK, outcome) = "none"
                    THEN [kind |-> "json"] ELSE NoRet
          /\ UNCHANGED <<BOT_TOKEN, CHAT_ID, errors, drawn>>

\* What a GET can come to: a transport failure, a refusal, a server error, a page
GetOutcomes == {"exception", "403", "500", "200"}

Get(via, url, outcome) == [method |-> "GET", via |-> via, url |-> url, outcome |-> outcome]

BWF_CAL_URL == "calendar/?cyear=2025&rstate=all"

\* bwf_scraper.py:31-32: the exception that escapes for an outcome of the GET
FetchCalendarRaised(outcome) ==
    IF outcome = "exception" THEN "RequestException"
    ELSE IF outcome # "200" THEN "HTTPError" ELSE "none"

\* bwf_scraper.py:23-97.  requests.get and raise_for_status are not guarded.
FetchCalendar ==
    /\ op = "idle"
    /\ \E outcome \in GetOutcomes :
       \E doc \in (IF outcome = "200" THEN Docs ELSE {<<>>}) :
          /\ op' = "fetch_calendar"
          /\ args' = [fetch |-> outcome, doc |-> doc]
          /\ http' = <<Get("requests", BWF_CAL_URL, outcome)>>
          /\ raised' = FetchCalendarRaised(outcome)
          /\ ret' = IF outcome = "200" THEN ListRet(CalendarResult(doc)) ELSE NoRet
          /\ UNCHANGED <<BOT_TOKEN, CHAT_ID, errors, drawn>>

-----------------------------------------------------------------------------
(* fetch_bwf_events, main.py:74-177                                        *)

\* A CSS selector: a tag name, a class token, a substring of the href; an
\* empty part does not constrain
Sel(tag, cls, href) == [tag |-> tag, cls |-> cls, href |-> href]
ClassSel(cls) == Sel("", cls, <<>>)
TagSel(tag) == Sel(tag, <<>>, <<>>)

Matches(e, sel) ==
    /\ sel.tag = "" \/ e.tag = sel.tag
    /\ sel.cls = <<>> \/ HasClass(e, sel.cls)
    /\ sel.href = <<>> \/ (e.href # <<>> /\ Contains(e.href, sel.href))

\* soup.select of a selector group: the elements matching any of its
\* selectors, each once, in document order
Select(elems, group) ==
    SelectSeq(elems, LAMBDA e : \E i \in DOMAIN group : Matches(e, group[i]))

\* main.py:92 and main.py:93: the two block pattern sets, in declared order
BlockPatternSets ==
    << <<ClassSel(Cls.event_card)>>,
       <<ClassSel(Cls.c_card_event), ClassSel(Cls.event)>> >>

\* main.py:103-111
NameSelectors ==
    << ClassSel(Cls.event_card_name), ClassSel(Cls.event_card_title),
       ClassSel(Cls.c_card_title), ClassSel(Cls.event_title),
       TagSel("h3"), TagSel("h2"), TagSel("a") >>

\* main.py:118-126
DateSelectors ==
    << ClassSel(Cls.event_card_date), ClassSel(Cls.event_date),
       ClassSel(Cls.c_card_date), ClassSel(Cls.date), ClassSel(Cls.dates),
       TagSel("time"), TagSel("p") >>

\* main.py:133-141
LevelSelectors ==
    << ClassSel(Cls.event_card_level), ClassSel(Cls.event_level),
       ClassSel(Cls.c_card_tag), ClassSel(Cls.level), ClassSel(Cls.tag),
       TagSel("small"), TagSel("span") >>

\* main.py:148-155
CitySelectors ==
    << ClassSel(Cls.event_card_city), ClassSel(Cls.event_city),
       ClassSel(Cls.c_card_meta), ClassSel(Cls.location), ClassSel(Cls.venue),
       ClassSel(Cls.city) >>

\* block.select_one(sel) followed by get_text(strip=True): the text of the
\* first descendant matching sel, empty when there is none
SelectOneText(block, sel) ==
    LET node == First(SelectSeq(block.kids, LAMBDA k : Matches(k, sel)))
    IN  IF node = <<>> THEN <<>> ELSE GetText(node[1], <<>>)

\* main.py:103-115 and its three siblings: the first selector of the list
\* whose first match has text decides the field
RECURSIVE FieldText(_, _)
FieldText(block, sels) ==
    IF sels = <<>> THEN <<>>
    ELSE LET text == SelectOneText(block, Head(sels))
         IN  IF text # <<>> THEN text ELSE FieldText(block, Tail(sels))

\* main.py:163-168
BlockRecord(block) ==
    [name |-> FieldText(block, NameSelectors),
     dates |-> FieldText(block, DateSelectors),
     level |-> FieldText(block, LevelSelectors),
     city |-> FieldText(block, CitySelectors)]

\* seq[:n] as Python slices: a negative n counts from the end
PySlice(seq, n) ==
    IF n >= 0 THEN SubSeq(seq, 1, IF n <= Len(seq) THEN n ELSE Len(seq))
    ELSE SubSeq(seq, 1, Max(Len(seq) + n, 0))

\* main.py:91-94: both pattern sets are selected and concatenated
Candidates(doc, limit) ==
    LET all == AllElements(doc)
        candidates == Select(all, BlockPatternSets[1]) \o Select(all, BlockPatternSets[2])
    IN  PySlice(candidates, Max(limit * 2, limit + 2))

\* main.py:96-171: one record per named block, until limit are collected
RECURSIVE CollectBlocks(_, _, _)
CollectBlocks(candidates, events, limit) ==
    IF candidates = <<>> THEN events
    ELSE LET rec  == BlockRecord(Head(candidates))
             next == IF rec.name # <<>> THEN Append(events, rec) ELSE events
         IN  IF Len(next) >= limit THEN next
             ELSE CollectBlocks(Tail(candidates), next, limit)

BwfEvents(doc, limit) == CollectBlocks(Candidates(doc, limit), <<>>, limit)

DefaultLimit == 8
Limits == {1, 2, DefaultLimit}

CAL_URL == "calendar/"

\* main.py:74-177.  Everything from the GET on sits in one try block whose
\* handler passes, so a failed fetch returns the still empty list.
FetchBwfEvents ==
    /\ op = "idle"
    /\ \E limit \in Limits, outcome \in GetOutcomes :
       \E doc \in (IF outcome = "200" THEN Docs ELSE {<<>>}) :
          /\ op' = "fetch_bwf_events"
          /\ args' = [fetch |-> outcome, doc |-> doc, limit |-> limit]
          /\ http' = <<Get("requests", CAL_URL, outcome)>>
          /\ raised' = "none"
          /\ ret' = ListRet(IF outcome = "200" THEN BwfEvents(doc, limit) ELSE <<>>)
          /\ UNCHANGED <<BOT_TOKEN, CHAT_ID, errors, drawn>>

-----------------------------------------------------------------------------
(* fetch_bwf_data, main.py:300-430                                         *)

\* main.py:324-329
API_URLS == <<"wp/v2/tournament", "wp/v2/event", "wp/v2/tournaments", "wp/v2/posts">>

\* main.py:331
CALENDAR_HTML == "calendar/"

\* A JSON body: whether it parses, whether its top level is a list, and the
\* items of that list.  An item is a dict with a "title" that is a dict
\* ("title_dict", text: its "rendered" value), a dict with any other "title"
\* ("title_str"), a dict with a "name" and no title ("name"), a dict with
\* neither ("other"), or no dict at all ("nondict").
Json(valid, isList, items) == [valid |-> valid, isList |-> isList, items |-> items]
Item(shape, text) == [shape |-> shape, text |-> text]

\* main.py:333-346
extract_names_from_json(obj) ==
    IF ~obj.isList THEN <<>>
    ELSE LET named == SelectSeq(obj.items,
                                LAMBDA it : it.shape \in {"title_dict", "title_str", "name"})
             names == [i \in DOMAIN named |-> Strip(named[i].text)]
         IN  SelectSeq(names, LAMBDA x : x # <<>>)

Err(kind, url) == [kind |-> kind, url |-> url]
NoErr == <<>>

\* The outcome of one attempt: the names it adds and the errors it records
Attempt(names, errs) == [names |-> names, errs |-> errs]

\* main.py:392-400, one round of the cloudscraper loop.  "error" is any
\* failure other than a 403: a transport exception or raise_for_status.
CloudAttempt(url, outcome, body) ==
    IF outcome = "403" THEN Attempt(<<>>, <<Err("403", url)>>)
    ELSE IF outcome = "error" \/ ~body.valid
         THEN Attempt(<<>>, <<Err("cloudscraper error", url)>>)
         ELSE Attempt(extract_names_from_json(body), NoErr)

\* main.py:348-356
try_requests_json(url, outcome, body) ==
    IF outcome = "403" THEN Attempt(<<>>, <<Err("403", url)>>)
    ELSE IF outcome = "error" \/ ~body.valid
         THEN Attempt(<<>>, <<Err("requests json error", url)>>)
         ELSE Attempt(extract_names_from_json(body), NoErr)

\* main.py:365-370, in declared order
NameSelectorSets ==
    << ClassSel(Cls.tournament_name),
       ClassSel(Cls.event_name),
       Sel("h4", Cls.tournament_title, <<>>),
       Sel("a", <<>>, s_tournament) >>

\* main.py:371-374: the texts of the first selector that matches anything
RECURSIVE FirstFound(_, _)
FirstFound(elems, sels) ==
    IF sels = <<>> THEN <<>>
    ELSE LET hits  == Select(elems, <<Head(sels)>>)
             found == [i \in DOMAIN hits |-> GetText(hits[i], <<>>)]
         IN  IF found # <<>> THEN found ELSE FirstFound(elems, Tail(sels))

s_no_title == <<"(","n","o"," ","<","t","i","t","l","e",">",")">>

\* main.py:375-376: the one-entry list naming the page title
Unparsed(page) ==
    << <<"!", " ">> \o (IF page.hasTitle THEN Strip(page.title) ELSE s_no_title) >>

\* main.py:358-378
try_requests_html(url, outcome, page) ==
    IF outcome = "403" THEN Attempt(<<>>, <<Err("403", url)>>)
    ELSE IF outcome = "error"
         THEN Attempt(<<>>, <<Err("requests html error", url)>>)
         ELSE LET found == FirstFound(AllElements(page.elems), NameSelectorSets)
              IN  Attempt(IF found # <<>> THEN found ELSE Unparsed(page), NoErr)

\* The attempts of one loop over API_URLS, in order (main.py:391-400 and
\* main.py:404-408: neither loop stops early)
ApiAttempts(via, outcomes, site) ==
    [i \in DOMAIN API_URLS |->
        IF via = "cloudscraper" THEN CloudAttempt(API_URLS[i], outcomes[i], site[i])
        ELSE try_requests_json(API_URLS[i], outcomes[i], site[i])]

RECURSIVE AllNames(_)
AllNames(attempts) ==
    IF attempts = <<>> THEN <<>> ELSE Head(attempts).names \o AllNames(Tail(attempts))

RECURSIVE AllErrs(_)
AllErrs(attempts) ==
    IF attempts = <<>> THEN <<>> ELSE Head(attempts).errs \o AllErrs(Tail(attempts))

\* main.py:418-422: first occurrence of each non-empty name, in order
RECURSIVE DedupNames(_, _)
DedupNames(results, seen) ==
    IF results = <<>> THEN <<>>
    ELSE LET x == Head(results)
         IN  IF x # <<>> /\ x \notin seen
             THEN <<x>> \o DedupNames(Tail(results), seen \cup {x})
             ELSE DedupNames(Tail(results), seen)

NameEntry(x) == [kind |-> "name", text |-> x, err |-> Err("", "")]
DiagEntry(e) == [kind |-> "diag", text |-> <<>>, err |-> e]
Unreadable   == [kind |-> "unreadable", text |-> <<>>, err |-> Err("", "")]

\* main.py:380-415: the three strategies.  in: whether cloudscraper can be
\* imported, the outcome of every request each strategy would make, the JSON
\* body behind each API url and the calendar page.
BwfDataRun(in) ==
    LET cloud   == IF in.scraper
                   THEN ApiAttempts("cloudscraper", in.cloud, in.site) ELSE <<>>
        res1    == AllNames(cloud)
        direct  == IF res1 = <<>>
                   THEN ApiAttempts("requests", in.direct, in.site) ELSE <<>>
        res2    == res1 \o AllNames(direct)
        html    == IF res2 = <<>>
                   THEN <<try_requests_html(CALENDAR_HTML, in.html, in.page)>> ELSE <<>>
    IN  [results |-> res2 \o AllNames(html),
         errors  |-> AllErrs(cloud) \o AllErrs(direct) \o AllErrs(html),
         http    |-> [i \in DOMAIN cloud |-> Get("cloudscraper", API_URLS[i], in.cloud[i])]
                     \o [i \in DOMAIN direct |-> Get("requests", API_URLS[i], in.direct[i])]
                     \o [i \in DOMAIN html |-> Get("requests", CALENDAR_HTML, in.html)]]

\* main.py:417-430: dedup, the cap on names, the diagnostics after them
BwfDataResult(results, errs) ==
    LET uniq   == Take(DedupNames(results, {}), 50)
        result == [i \in DOMAIN uniq |-> NameEntry(uniq[i])]
                  \o [i \in DOMAIN errs |-> DiagEntry(errs[i])]
    IN  IF result # <<>> THEN result ELSE <<Unreadable>>

\* What one request of fetch_bwf_data can come to: a 403, any other failure
\* (a transport exception, or an error status that raise_for_status raises
\* on), or a response
ApiOutcomes == {"403", "error", "200"}

BigList == 52      \* titles behind the longest JSON listing

\* A site whose first two endpoints list tournaments (with a duplicate, a
\* padded title and items without a title), whose third answers with an
\* object and whose fourth answers with something that is not JSON
SiteSmall ==
    << Json(TRUE, TRUE, << Item("title_dict", Txt.Malaysia_Open),
                           Item("title_str", Txt.padded),
                           Item("other", <<>>),
                           Item("name", Txt.India_Open),
                           Item("title_dict", <<>>) >>),
       Json(TRUE, TRUE, << Item("title_dict", Txt.Malaysia_Open),
                           Item("nondict", Txt.Local_Cup),
                           Item("name", Txt.Korea_Open) >>),
       Json(TRUE, FALSE, <<>>),
       Json(FALSE, FALSE, <<>>) >>

\* A site whose first endpoint lists more titles than the cap
SiteBig ==
    << Json(TRUE, TRUE, [i \in 1..BigList |-> Item("title_dict", <<"E">> \o Digits(i))]),
       Json(TRUE, TRUE, << Item("name", Txt.India_Open) >>),
       Json(TRUE, TRUE, <<>>),
       Json(TRUE, TRUE, <<>>) >>

Sites == {SiteSmall, SiteBig}

Page(hasTitle, title, elems) == [hasTitle |-> hasTitle, title |-> title, elems |-> elems]

\* The new layout, with tournament links a later selector would match too
PageNew ==
    Page(TRUE, Txt.Calendar,
         << Node("div", <<Cls.news>>,
                 << Leaf("span", <<Cls.tournament_name>>, Txt.Malaysia_Open, NoRef),
                    Leaf("a", NoCls, Txt.India_Open, Txt.href_ind),
                    Leaf("span", <<Cls.tournament_name>>, Txt.padded, NoRef) >>) >>)

\* The old layout
PageOld ==
    Page(TRUE, Txt.Calendar,
         << Node("div", <<Cls.news>>,
                 << Leaf("h4", <<Cls.tournament_title>>, Txt.Korea_Open, NoRef),
                    Leaf("a", NoCls, Txt.India_Open, Txt.href_ind),
                    Leaf("a", NoCls, Txt.Local_Cup, Txt.href_about) >>) >>)

\* The first selector matches an element without text
PageBlank ==
    Page(TRUE, Txt.Calendar,
         << Node("div", <<Cls.news>>,
                 << Leaf("span", <<Cls.tournament_name>>, <<>>, NoRef),
                    Leaf("span", <<Cls.event_name>>, Txt.Korea_Open, NoRef) >>) >>)

\* Nothing to select: a page rendered by scripts, and a page without a title
PageJs == Page(TRUE, Txt.Calendar, << Node("div", <<Cls.news>>, <<>>) >>)
PageBare == Page(FALSE, <<>>, <<>>)

Pages == {PageNew, PageOld, PageBlank, PageJs, PageBare}

Unused == [i \in DOMAIN API_URLS |-> "unused"]

\* The outcomes of one loop over API_URLS: the urls fare alike, but for at
\* most one of them
OutcomeVectors ==
    {v \in [DOMAIN API_URLS -> ApiOutcomes] :
        \E base \in ApiOutcomes : Cardinality({i \in DOMAIN v : v[i] # base}) <= 1}

\* main.py:300-430.  Every request sits in a try block of its own.
FetchBwfData ==
    /\ op = "idle"
    /\ \E scraper \in BOOLEAN, site \in Sites :
       \E cloud \in (IF scraper THEN OutcomeVectors ELSE {Unused}) :
       \E res1 \in {IF scraper THEN AllNames(ApiAttempts("cloudscraper", cloud, site)) ELSE <<>>} :
       \E direct \in (IF res1 = <<>> THEN OutcomeVectors ELSE {Unused}) :
       \E res2 \in {IF res1 = <<>>
                    THEN AllNames(ApiAttempts("requests", direct, site)) ELSE res1} :
       \E html \in (IF res2 = <<>> THEN ApiOutcomes ELSE {"unused"}) :
       \E page \in (IF html = "200" THEN Pages ELSE {PageBare}) :
       \E in \in {[scraper |-> scraper, site |-> site, cloud |-> cloud,
                   direct |-> direct, html |-> html, page |-> page]} :
       \E run \in {BwfDataRun(in)} :
          /\ op' = "fetch_bwf_data"
          /\ args' = in
          /\ http' = run.http
          /\ errors' = run.errors
          /\ raised' = "none"
          /\ ret' = ListRet(BwfDataResult(run.results, run.errors))
          /\ UNCHANGED <<BOT_TOKEN, CHAT_ID, drawn>>

-----------------------------------------------------------------------------
(* The composers: draw_calendar_image, bwf_scraper.py:108-185, and         *)
(* make_poster, main.py:183-269                                            *)

CanvasW == 1080        \* W, bwf_scraper.py:112 and main.py:184
CanvasH == 1350        \* H
ReservedBottom == 340  \* bwf_scraper.py:179 and main.py:236
QrSize == 260          \* bwf_scraper.py:131 and main.py:257

\* A drawing primitive: what it is, its top and its lower bound.  A line of
\* text drawn at y in a font of size s occupies y .. y + s.
Draw(kind, y, height) == [kind |-> kind, y |-> y, bottom |-> y + height]

\* --- textwrap.wrap(text, width), for text without tabs and hyphens ---

\* The chunks TextWrapper splits text into: maximal runs of blanks and of
\* other characters, each with its length
Chunks(s) ==
    LET starts == {i \in DOMAIN s : i = 1 \/ (s[i] = " ") # (s[i - 1] = " ")}
        \* the chunk each character belongs to
        chunk  == [i \in DOMAIN s |-> Cardinality({j \in starts : j <= i})] \o <<>>
    IN  [k \in 1..Cardinality(starts) |->
            LET members == {i \in DOMAIN s : chunk[i] = k}
            IN  [len |-> Cardinality(members),
                 ws  |-> \A i \in members : s[i] = " "]]

\* How many leading chunks fit on a line that already holds cur_len
RECURSIVE Fitting(_, _, _)
Fitting(chunks, cur_len, width) ==
    IF chunks = <<>> \/ cur_len + Head(chunks).len > width THEN 0
    ELSE 1 + Fitting(Tail(chunks), cur_len + Head(chunks).len, width)

RECURSIVE TotalLen(_)
TotalLen(chunks) == IF chunks = <<>> THEN 0 ELSE Head(chunks).len + TotalLen(Tail(chunks))

\* TextWrapper._wrap_chunks: the number of lines produced
RECURSIVE WrapChunks(_, _, _)
WrapChunks(chunks, width, nlines) ==
    IF chunks = <<>> THEN nlines
    ELSE LET start == IF Head(chunks).ws /\ nlines > 0 THEN Tail(chunks) ELSE chunks
             k     == Fitting(start, 0, width)
             line  == SubSeq(start, 1, k)
             rest  == SubSeq(start, k + 1, Len(start))
             \* a chunk too long for any line is broken at the space left
             long  == rest # <<>> /\ rest[1].len > width
             left  == width - TotalLen(line)
             line2 == IF long THEN Append(line, [len |-> left, ws |-> FALSE]) ELSE line
             rest2 == IF long
                      THEN <<[len |-> rest[1].len - left, ws |-> FALSE]>> \o Tail(rest)
                      ELSE rest
             line3 == IF line2 # <<>> /\ line2[Len(line2)].ws
                      THEN SubSeq(line2, 1, Len(line2) - 1) ELSE line2
         IN  WrapChunks(rest2, width, IF line3 # <<>> THEN nlines + 1 ELSE nlines)

\* len(textwrap.wrap(text, width=width))
WrapCount(text, width) == WrapChunks(Chunks(text), width, 0)

\* An asset file: whether it exists, and the size of the image in it
Asset(exists, w, h) == [exists |-> exists, w |-> w, h |-> h]
NoAsset == Asset(FALSE, 1, 1)

\* --- draw_calendar_image ---

TitleSize == 56    \* bwf_scraper.py:139
SubSize == 30      \* bwf_scraper.py:140
BodySize == 34     \* bwf_scraper.py:141
LineGap == 16      \* bwf_scraper.py:156
BlockGap == 26     \* bwf_scraper.py:157
WrapWidth == 28    \* bwf_scraper.py:162
QrMargin == 32     \* bwf_scraper.py:133-134

\* bwf_scraper.py:117-125: the banner scaled to the canvas width, and where
\* the text starts
CalendarBannerH(banner) == (banner.h * CanvasW) \div banner.w
CalendarTopY(banner) == IF banner.exists THEN CalendarBannerH(banner) + 24 ELSE 40

\* bwf_scraper.py:134: the top of the corner image
CalendarQrY == CanvasH - QrSize - QrMargin

\* bwf_scraper.py:159-180: one block per record: the bar, the wrapped name,
\* the metadata line; the cursor is compared with the reserved region only
\* after a whole block has been drawn
RECURSIVE CalendarBlocks(_, _)
CalendarBlocks(events, cursor_y) ==
    IF events = <<>> THEN <<>>
    ELSE LET e      == Head(events)
             n      == WrapCount(e.name, WrapWidth)
             step   == BodySize + LineGap
             bar    == <<[kind |-> "bar", y |-> cursor_y - 8, bottom |-> cursor_y - 4]>>
             lines  == [i \in 1..n |-> Draw("name", cursor_y + (i - 1) * step, BodySize)]
             meta_y == cursor_y + n * step
             meta   == <<Draw("meta", meta_y, SubSize)>>
             after  == meta_y + SubSize + BlockGap
         IN  bar \o lines \o meta
                 \o (IF after > CanvasH - ReservedBottom THEN <<>>
                     ELSE CalendarBlocks(Tail(events), after))

\* bwf_scraper.py:108-185
CalendarImage(events, banner, qr) ==
    LET top_y == CalendarTopY(banner)
    IN  (IF banner.exists THEN <<Draw("banner", 0, CalendarBannerH(banner))>> ELSE <<>>)
            \o (IF qr.exists THEN <<Draw("qr", CalendarQrY, QrSize)>> ELSE <<>>)
            \o <<Draw("title", top_y, TitleSize), Draw("subtitle", top_y + 66, SubSize)>>
            \o CalendarBlocks(events, top_y + 110)

\* --- make_poster ---

DefaultSize == 36  \* main.py:27
SmallSize == 28    \* main.py:28
TinySize == 22     \* main.py:29
CardH == 130       \* main.py:216
CardGap == 18      \* main.py:197
PosterMargin == 48 \* main.py:248, 259-260
PosterStartY == 180 \* main.py:195

\* main.py:214-237
RECURSIVE PosterCards(_, _)
PosterCards(events, y) ==
    IF events = <<>> THEN <<>>
    ELSE LET after == y + CardH + CardGap
         IN  <<Draw("card", y, CardH),
               Draw("name", y + 16, SmallSize),
               Draw("meta", y + 16 + 40, TinySize)>>
                 \o (IF after > CanvasH - ReservedBottom THEN <<>>
                     ELSE PosterCards(Tail(events), after))

\* main.py:244-248: the banner scaled to the canvas width less the margins
PosterBannerH(banner) == (banner.h * (CanvasW - 96)) \div banner.w

\* main.py:260
PosterQrY == CanvasH - QrSize - PosterMargin

\* main.py:183-269
Poster(events, banner, qr) ==
    <<Draw("title", 48, DefaultSize), Draw("subtitle", 110, SmallSize)>>
        \o (IF events = <<>>
            THEN <<Draw("warning", PosterStartY, SmallSize),
                   Draw("hint", PosterStartY + 48, TinySize)>>
            ELSE PosterCards(events, PosterStartY))
        \o (IF banner.exists
            THEN <<Draw("banner", CanvasH - PosterBannerH(banner) - PosterMargin,
                        PosterBannerH(banner))>>
            ELSE <<>>)
        \o (IF qr.exists THEN <<Draw("qr", PosterQrY, QrSize)>> ELSE <<>>)

\* --- inputs of the composers ---

MaxEvents == 10    \* records in the longest list handed to a composer
MaxRepeat == 6     \* repetitions of a phrase in the longest name

Phrase(k) == Join(<<" ">>, [i \in 1..k |-> Txt.Kuala_Lumpur])

SampleNames == {<<>>, Txt.Malaysia_Open, Phrase(2), Phrase(MaxRepeat)}

CalendarEvent(name) ==
    [name |-> name, level |-> <<>>, dates |-> Txt.d14_Jan, location |-> <<>>, link |-> <<>>]

PosterEvent(name) ==
    [name |-> name, dates |-> Txt.d14_Jan, level |-> <<>>, city |-> <<>>]

EventLists(composer) ==
    {[i \in 1..n |-> IF composer = "make_poster" THEN PosterEvent(name) ELSE CalendarEvent(name)] :
        n \in 0..MaxEvents, name \in SampleNames}

\* A wide banner, a tall banner, no banner
Banners == {Asset(TRUE, 1080, 216), Asset(TRUE, 540, 450), NoAsset}
Qrs == {Asset(TRUE, 300, 300), NoAsset}

DrawCalendarImage ==
    /\ op = "idle"
    /\ \E events \in EventLists("draw_calendar_image"), banner \in Banners, qr \in Qrs :
          /\ op' = "draw_calendar_image"
          /\ args' = [events |-> events, banner |-> banner, qr |-> qr]
          /\ drawn' = CalendarImage(events, banner, qr)
          /\ ret' = [kind |-> "path"]
          /\ raised' = "none"
          /\ UNCHANGED <<BOT_TOKEN, CHAT_ID, http, errors>>

MakePoster ==
    /\ op = "idle"
    /\ \E events \in EventLists("make_poster"), banner \in Banners, qr \in Qrs :
          /\ op' = "make_poster"
          /\ args' = [events |-> events, banner |-> banner, qr |-> qr]
          /\ drawn' = Poster(events, banner, qr)
          /\ ret' = [kind |-> "bytes"]
          /\ raised' = "none"
          /\ UNCHANGED <<BOT_TOKEN, CHAT_ID, http, errors>>

-----------------------------------------------------------------------------
(* generate_and_send, bwf_scraper.py:198-208                               *)

\* The asset directory as the driver finds it, and the caller's credentials
AssetDirs == {<<NoAsset, NoAsset>>,
              <<Asset(TRUE, 1080, 216), Asset(TRUE, 300, 300)>>,
              <<Asset(TRUE, 540, 450), Asset(TRUE, 300, 300)>>}
Credentials == {<<"123:abc", "@badmeet">>, <<"", "@badmeet">>, <<"123:abc", "">>}

\* bwf_scraper.py:198-208.  Nothing is caught: a failed fetch, an empty
\* list and a failed delivery each end the call with an exception.
GenerateAndSend ==
    /\ op = "idle"
    /\ \E outcome \in GetOutcomes :
       \E doc \in (IF outcome = "200" THEN Docs ELSE {<<>>}) :
       \E events \in {IF outcome = "200" THEN CalendarResult(doc) ELSE <<>>} :
       \E drawing \in {outcome = "200" /\ events # <<>>} :
       \E assets \in (IF drawing THEN AssetDirs ELSE {<<NoAsset, NoAsset>>}) :
       \E image \in {IF drawing THEN CalendarImage(events, assets[1], assets[2]) ELSE <<>>} :
       \E cred \in Credentials :
       \E post \in (IF drawing THEN PostOutcomesFor(cred[1], cred[2]) ELSE {"unused"}) :
          /\ op' = "generate_and_send"
          /\ args' = [fetch |-> outcome, doc |-> doc, banner |-> assets[1],
                      qr |-> assets[2], token |-> cred[1], chat_id |-> cred[2],
                      post |-> post]
          /\ http' = <<Get("requests", BWF_CAL_URL, outcome)>>
                     \o (IF drawing THEN TgSendPhotoHttp(TRUE, post) ELSE <<>>)
          /\ drawn' = image
          /\ raised' = IF outcome # "200" THEN FetchCalendarRaised(outcome)
                       ELSE IF events = <<>> THEN "RuntimeError"
                       ELSE TgSendPhotoRaised(TRUE, post)
          /\ ret' = IF drawing /\ TgSendPhotoRaised(TRUE, post) = "none"
                    THEN [kind |-> "path"] ELSE NoRet
          /\ UNCHANGED <<BOT_TOKEN, CHAT_ID, errors>>

Next ==
    \/ SendTelegramText
    \/ SendTelegramPhoto
    \/ TgSendPhoto
    \/ FetchCalendar
    \/ FetchBwfEvents
    \/ FetchBwfData
    \/ DrawCalendarImage
    \/ MakePoster
    \/ GenerateAndSend
    \/ Return

Spec == Init /\ [][Next]_vars

-----------------------------------------------------------------------------
(* The claims.                                                             *)

Notifiers == {"send_telegram_text", "send_telegram_photo", "tg_send_photo"}
Extractors == {"fetch_calendar", "fetch_bwf_events", "fetch_bwf_data"}

\* The token and the destination a notifier call works with
TokenOf == IF op = "tg_send_photo" THEN args.token ELSE BOT_TOKEN
ChatOf == IF op = "tg_send_photo" THEN args.chat_id ELSE CHAT_ID

\* The payload of a notifier call is there to be sent (tg_send_photo is
\* handed the path of a file, which may not exist)
PayloadGiven == op = "tg_send_photo" => args.fileOK

\* C1: a notifier operation called with any payload while the bot token or
\* the destination is absent or empty performs no HTTP request and returns
\* the configuration failure to its caller.
C1_NotifierRefusesWithoutConfig ==
    (op \in Notifiers /\ PayloadGiven /\ (Falsy(TokenOf) \/ Falsy(ChatOf)))
        => /\ http = <<>>
           /\ raised = "none"
           /\ ret = ConfigFailure

Failed(request) == request.outcome # "200"

\* C2: no exception escapes an extractor entry point, whatever its fetches
\* come to, and when every fetch failed the sequence it returns is empty or
\* holds diagnostics only.
C2_ExtractorNeverRaises ==
    op \in Extractors
        => /\ raised = "none"
           /\ ret.kind = "list"
           /\ (\A i \in DOMAIN http : Failed(http[i]))
                 => \/ ret.items = <<>>
                    \/ /\ op = "fetch_bwf_data"
                       /\ \A i \in DOMAIN ret.items : ret.items[i].kind # "name"

\* The entry points that fetch candidate sources, and the pipeline built on
\* one of them
Fetching == {"fetch_bwf_data", "fetch_calendar", "generate_and_send"}

Gets == SelectSeq(http, LAMBDA r : r.method = "GET")

\* The urls one strategy requested, in order
UrlsVia(via, urls) ==
    LET mine == SelectSeq(Gets, LAMBDA r : r.via = via /\ \E i \in DOMAIN urls : urls[i] = r.url)
    IN  [i \in DOMAIN mine |-> mine[i].url]

\* The names the requests of fetch_bwf_data before the k-th one produced
NamesBefore(k) ==
    LET Names(i) ==
            IF Failed(Gets[i]) THEN <<>>
            ELSE IF Gets[i].via = "cloudscraper"
                 THEN CloudAttempt(Gets[i].url, "200",
                                   args.site[CHOOSE u \in DOMAIN API_URLS : API_URLS[u] = Gets[i].url]).names
                 ELSE try_requests_json(Gets[i].url, "200",
                                   args.site[CHOOSE u \in DOMAIN API_URLS : API_URLS[u] = Gets[i].url]).names
    IN  \E i \in 1..(k - 1) : Names(i) # <<>>

\* C3: a failed fetch of a candidate source (an error status, 403 included,
\* or a transport exception) does not abort the pipeline: the failure is
\* recorded and every candidate of the ordered list is still attempted; and
\* a later strategy is attempted only when the earlier ones produced no
\* result.
C3_FailedFetchIsNotFatal ==
    op \in Fetching
        => /\ (\E i \in DOMAIN Gets : Failed(Gets[i]))
                 => /\ raised = "none"
                    /\ \A i \in DOMAIN Gets :
                          Failed(Gets[i]) => \E j \in DOMAIN errors : errors[j].url = Gets[i].url
           /\ op = "fetch_bwf_data"
                 => /\ UrlsVia("cloudscraper", API_URLS) \in {<<>>, API_URLS}
                    /\ UrlsVia("requests", API_URLS) \in {<<>>, API_URLS}
                    /\ \A k \in DOMAIN Gets :
                          (k > 1 /\ Gets[k].via # Gets[k - 1].via) => ~NamesBefore(k)
                    /\ \A k \in DOMAIN Gets :
                          (k > 1 /\ Gets[k].url = CALENDAR_HTML) => ~NamesBefore(k)

\* The records of every card of the document, the tier filter left out
UnfilteredEvents(doc) ==
    LET cards == Cards(doc) IN [i \in DOMAIN cards |-> CardRecord(cards[i])]

\* C4: fetch_calendar keeps an event only if its level is found and matches a
\* tier; but when cards were extracted and none matches a tier, it returns
\* the unfiltered list, cut to its first 8, instead of an empty list.
C4_TierFilterRelaxedWhenEmpty ==
    (op = "fetch_calendar" /\ raised = "none")
        => LET all  == UnfilteredEvents(args.doc)
               kept == SelectSeq(all, TierKept)
           IN  /\ kept # <<>> => \A i \in DOMAIN ret.items : TierKept(ret.items[i])
               /\ (kept = <<>> /\ all # <<>>) => ret.items = Take(all, 8)

\* The index of the first pattern set with a match that is not empty, 0 if
\* there is none; hits[i] are the non-empty matches of the i-th set
Winner(hits) ==
    IF \E i \in DOMAIN hits : hits[i] # <<>>
    THEN CHOOSE i \in DOMAIN hits : hits[i] # <<>> /\ \A j \in 1..(i - 1) : hits[j] = <<>>
    ELSE 0

\* C5: the pattern sets are tried in declared order and the first that
\* produces a non-empty match wins: what an extractor returns comes from the
\* matches of that set alone, also for a document several sets match.
C5_FirstPatternSetWins ==
    /\ (op = "fetch_bwf_events" /\ args.fetch = "200")
          => LET elems == AllElements(args.doc)
                 w     == Winner([i \in DOMAIN BlockPatternSets |->
                                    SelectSeq(Select(elems, BlockPatternSets[i]),
                                              LAMBDA b : BlockRecord(b).name # <<>>)])
                 won   == IF w = 0 THEN <<>> ELSE Select(elems, BlockPatternSets[w])
             IN  /\ Len(ret.items) <= Len(won)
                 /\ \A i \in DOMAIN ret.items :
                       \E j \in DOMAIN won : ret.items[i] = BlockRecord(won[j])
    /\ (op = "fetch_bwf_data" /\ args.html = "200")
          => LET elems == AllElements(args.page.elems)
                 sets  == [i \in DOMAIN NameSelectorSets |-> <<NameSelectorSets[i]>>]
                 w     == Winner([i \in DOMAIN sets |->
                                    SelectSeq(Select(elems, sets[i]),
                                              LAMBDA e : GetText(e, <<>>) # <<>>)])
                 won   == IF w = 0 THEN <<>> ELSE Select(elems, sets[w])
             IN  \A i \in DOMAIN ret.items :
                    ret.items[i].kind = "name"
                       => \/ w = 0
                          \/ \E j \in DOMAIN won : ret.items[i].text = GetText(won[j], <<>>)

Composing == {"draw_calendar_image", "make_poster", "generate_and_send"}

\* The lines of body text among the primitives drawn
BodyText == SelectSeq(drawn, LAMBDA d : d.kind \in {"name", "meta"})

\* C6: when the corner image is placed, no line of body text reaches below
\* its top, whatever the number of records and of wrapped name lines: the
\* composer stops before the cursor enters the reserved region.
C6_BodyTextAboveCornerAsset ==
    op \in Composing
        => \A q \in DOMAIN drawn :
              drawn[q].kind = "qr"
                 => \A i \in DOMAIN BodyText : BodyText[i].bottom <= drawn[q].y

s_Super_1000 == <<"S","u","p","e","r"," ","1","0","0","0">>

\* C7: from a document with exactly one .event-card block that holds
\* "SUPER 1000", the date "12 Jan 2025" and the city "Kuala Lumpur,
\* Malaysia", the extractor yields exactly one record, whose level is
\* "Super 1000" with a single space.
C7_ScenarioA ==
    (op \in {"fetch_calendar", "fetch_bwf_events"} /\ args.fetch = "200" /\ args.doc = <<CardA>>)
        => /\ Len(ret.items) = 1
           /\ ret.items[1].level = s_Super_1000

Kinds(draws) == [i \in DOMAIN draws |-> draws[i].kind]

\* What is drawn between the header and the assets
Body == SelectSeq(drawn, LAMBDA d : d.kind \notin {"title", "subtitle", "banner", "qr"})

\* C8: when no candidate source yields a record the extractor returns no
\* record, and the pipeline still composes an image, with the warning
\* paragraph and the retry hint and no block, card or bar, rather than fail.
C8_ScenarioB ==
    /\ (op = "fetch_bwf_data" /\ \A k \in 1..(Len(Gets) + 1) : ~NamesBefore(k)
                              /\ args.html # "200")
          => \A i \in DOMAIN ret.items : ret.items[i].kind # "name"
    /\ (op = "make_poster" /\ args.events = <<>>)
          => Kinds(Body) = <<"warning", "hint">>
    /\ (op = "generate_and_send" /\ args.fetch = "200" /\ CalendarEvents(args.doc) = <<>>)
          => /\ raised = "none"
             /\ Kinds(Body) = <<"warning", "hint">>

\* C9: an extractor entry point never returns more than its maximum count:
\* 8 records from fetch_calendar, limit records from fetch_bwf_events, 50
\* entries from fetch_bwf_data.
C9_ResultWithinMaximum ==
    (op \in Extractors /\ raised = "none")
        => Len(ret.items) <= (IF op = "fetch_calendar" THEN 8
                              ELSE IF op = "fetch_bwf_events" THEN args.limit
                              ELSE 50)

\* The records fetch_calendar hands to its de-duplication (bwf_scraper.py:86)
\* and the names fetch_bwf_data hands to its own (main.py:417)
DedupInput ==
    IF op = "fetch_calendar" THEN CalendarEvents(args.doc)
    ELSE BwfDataRun(args).results

Dedup(s) == IF op = "fetch_calendar" THEN DedupEvents(s, {}) ELSE DedupNames(s, {})

\* C10: de-duplication is idempotent: in fetch_calendar (key: name, dates,
\* level) and in fetch_bwf_data (key: the name), running the step on its own
\* output gives the same sequence, same elements in the same order, as
\* running it once.
C10_DedupIdempotent ==
    ((op = "fetch_calendar" /\ args.fetch = "200") \/ op = "fetch_bwf_data")
        => Dedup(Dedup(DedupInput)) = Dedup(DedupInput)

\* C10: fetch_calendar has de-duplicated a list in which a record recurs
\* after another one, and has kept both of them
C10_DedupCollapsedARecurrence ==
    /\ op = "fetch_calendar" /\ args.fetch = "200"
    /\ Len(Dedup(DedupInput)) < Len(DedupInput)
    /\ Len(Dedup(DedupInput)) >= 2
    /\ ret.items = Dedup(DedupInput)

\* Whether sub can be had from seq by leaving elements out, the order of the
\* others unchanged
RECURSIVE IsSubsequence(_, _)
IsSubsequence(sub, seq) ==
    IF sub = <<>> THEN TRUE
    ELSE IF seq = <<>> THEN FALSE
    ELSE IF Head(sub) = Head(seq) THEN IsSubsequence(Tail(sub), Tail(seq))
    ELSE IsSubsequence(sub, Tail(seq))

\* C11: the tier filter preserves order: the records fetch_calendar keeps,
\* and the records it returns, are a subsequence of the records of the cards
\* of the document, in document order.
C11_TierFilterKeepsOrder ==
    (op = "fetch_calendar" /\ args.fetch = "200")
        => /\ IsSubsequence(CalendarEvents(args.doc), UnfilteredEvents(args.doc))
           /\ IsSubsequence(ret.items, UnfilteredEvents(args.doc))

\* C11: fetch_calendar has filtered a document in which a card without a
\* tier comes before a card that is kept, and has returned two records or
\* more that differ
C11_FilterDroppedBetweenKept ==
    /\ op = "fetch_calendar" /\ args.fetch = "200"
    /\ LET all == UnfilteredEvents(args.doc)
       IN  \E i, j \in DOMAIN all : i < j /\ ~TierKept(all[i]) /\ TierKept(all[j])
    /\ Len(ret.items) >= 2
    /\ ret.items[1] # ret.items[2]

=============================================================================
